---------------------------- MODULE Spec2Model ----------------------------
(***************************************************************************)
(* Model of the dash bucket of r-reactive (src/src/dash/bucket.rs,         *)
(* src/src/dash/pair.rs): the version-lock word with its spin lock, and    *)
(* the slot array with its packed 32-bit bitmap.                           *)
(*                                                                         *)
(* A u32 is modelled as the set of the positions of its 1 bits, a subset   *)
(* of 0..31 (bit 0 is the least significant).  Bitwise operators are set   *)
(* operators; + and - are computed by carry/borrow on the set, so that the *)
(* width of the word and its overflow are those of the code.               *)
(***************************************************************************)
EXTENDS Integers, Sequences, FiniteSets, TLC

(* ------------------------------ u32 words ------------------------------ *)

U32Bits == 0..31

\* 1 << k for a u32 literal 1
Shl1(k) == {k}

\* w >> n
Shr(w, n) == {i - n : i \in {j \in w : j >= n}}

\* !w
BitNot(w) == U32Bits \ w

\* u32::trailing_zeros
TrailingZeros(w) ==
    IF w = {} THEN 32 ELSE CHOOSE i \in w : \A j \in w : i <= j

\* u32::count_ones
CountOnes(w) == Cardinality(w)

RECURSIVE Pow2(_)
Pow2(n) == IF n = 0 THEN 1 ELSE 2 * Pow2(n - 1)

\* the number a word of at most 31 significant bits stands for
RECURSIVE ToNat(_)
ToNat(w) ==
    IF w = {} THEN 0
    ELSE LET i == CHOOSE x \in w : \A y \in w : x >= y
         IN  Pow2(i) + ToNat(w \ {i})

\* w + 1 in u32: overflows iff every bit is set; the wrapped result is 0
AddOneOverflows(w) == w = U32Bits

WrappingAddOne(w) ==
    LET z == TrailingZeros(BitNot(w))
    IN  IF z = 32 THEN {} ELSE {i \in w : i > z} \cup {z}

(* --------------------------- program constants ------------------------- *)

\* const LOCK_SET: u32 = 1 << 31
LOCK_SET == Shl1(31)

\* const LOCK_MASK: u32 = (1 << 31) - 1
LOCK_MASK == 0..30

\* const COUNT_MASK: u32 = (1 << 4) - 1
COUNT_MASK == 0..3

K_NUM_PAIR_PER_BUCKET == 14

\* w - LOCK_SET in u32: borrows out of the word iff bit 31 is clear; the
\* wrapped result is w with bit 31 flipped (w + 2^31 mod 2^32)
SubLockSetOverflows(w) == ~(LOCK_SET \subseteq w)

WrappingSubLockSet(w) ==
    IF LOCK_SET \subseteq w THEN w \ LOCK_SET ELSE w \cup LOCK_SET

(* -------------------------------- bounds -------------------------------- *)

\* threads contending on one bucket
NumThreads == 2

\* acquire/release cycles each thread performs
MaxIter == 2

\* threads racing on one try_get_lock each
NumTryThreads == 3

\* insert calls made on a bucket that starts empty
MaxCalls == 16

\* insert calls made on a bucket that starts from an arbitrary occupancy
MaxSlotCalls == 2

\* set and remove calls one caller makes on a store
MaxStoreOps == 4

\* receivers subscribed to a store
MaxSubscribers == 1

\* set_with_ttl calls of the loop of main (100000 in main.rs)
MaxMainSets == 130

\* threads that call set on one key at the same time
NumSetters == 3

\* versions (bits 0..30 of the lock word) a scenario may start from; the
\* last two are 2^31 - 2 and 2^31 - 1, where the version counter wraps
StartVersions == {{}, {0}, LOCK_MASK \ {0}, LOCK_MASK}

(* -------------------------------- state --------------------------------- *)

VARIABLES
    \* struct Bucket
    pairs,            \* Vec<Option<Pair<T>>>, indices 0..13
    overflow_count,
    overflow_member,
    overflow_index,
    overflow_bitmap,
    fingerprints,     \* [u8; 18]
    bitmap,           \* u32
    version_lock,     \* Arc<AtomicU32>
    \* threads calling the lock primitives
    pc,               \* where each thread is
    old_value,        \* the local old_value of the call a thread is in
    ret,              \* what a thread's last try_get_lock returned
    iter,             \* acquire/release cycles a thread has completed
    nthr,             \* how many threads run in this scenario
    start,            \* the lock word the scenario started from
    \* the caller of insert
    result,           \* the last insert call: its arguments and what it returned
    calls,            \* insert calls made so far
    \* a reader that validates by the version
    obs,              \* where the reader is and what it has read
    \* struct ReactiveStore and its users
    data,             \* Arc<RwLock<HashMap<String, StoreValue>>>: (key, value) pairs
    tx,               \* the messages the broadcast channel has taken, oldest first
    cap,              \* how many messages the channel retains
    rx,               \* the broadcast::Receivers handed out by subscribe
    setters,          \* the threads inside ReactiveStore::set
    hist,             \* the calls the caller of the store has completed
    plan              \* how many calls the caller of the store makes

bucketVars == <<pairs, overflow_count, overflow_member, overflow_index,
                overflow_bitmap, fingerprints, bitmap>>
threadVars == <<pc, old_value, ret, iter, nthr, start>>
callerVars == <<result, calls>>
storeVars == <<data, tx, cap, rx, setters, hist, plan>>
vars == <<pairs, overflow_count, overflow_member, overflow_index,
          overflow_bitmap, fingerprints, bitmap, version_lock,
          pc, old_value, ret, iter, nthr, start, result, calls,
          obs, data, tx, cap, rx, setters, hist, plan>>

Active == 1..nthr
Slots == 0..(K_NUM_PAIR_PER_BUCKET - 1)

None == [tag |-> "None"]

\* Pair::new
Pair(key, value) == [key |-> key, value |-> value]

Some(v) == [tag |-> "Some", val |-> v]

NoCall == [kind |-> "none"]

\* no reader is validating
NoObserver == obs = [pc |-> "off"]

\* no ReactiveStore has been constructed
NoStore ==
    /\ data = {}
    /\ tx = <<>>
    /\ cap = 0
    /\ rx = <<>>
    /\ setters = <<>>
    /\ hist = <<>>
    /\ plan = 0

\* Bucket::new: the fields other than the lock word
NewBucketFields ==
    /\ pairs = [s \in Slots |-> None]
    /\ overflow_count = 0
    /\ overflow_member = 0
    /\ overflow_index = 0
    /\ overflow_bitmap = 0
    /\ fingerprints = [i \in 0..17 |-> 0]
    /\ bitmap = {}

(* --------------------------- lock primitives ---------------------------- *)

\* a compare_exchange that does not compare: a plain store
CompareExchangeBlind(cur, current) == TRUE

\* a compare_exchange that ignores the lock flag of the word it finds
CompareExchangeMasked(cur, current) == (cur \cap LOCK_MASK) = current

\* AtomicU32::compare_exchange(current, new): whether it succeeds on the
\* word cur
CompareExchangeOk(cur, current) == cur = current

\* a release that clears the flag and forgets the version
ReleaseValueNoBump(old) == old \ LOCK_SET

\* the value release_lock stores: old_value + 1 - LOCK_SET, wrapping
ReleaseValue(old) == WrappingSubLockSet(WrappingAddOne(old))

\* whether old_value + 1 - LOCK_SET leaves the range of u32 on the way
ReleaseOverflows(old) ==
    AddOneOverflows(old) \/ SubLockSetOverflows(WrappingAddOne(old))

\* Bucket::is_locked
is_locked == (version_lock \cap LOCK_SET) # {}

\* bits 0..30 of the lock word, as a number
Version == ToNat(version_lock \cap LOCK_MASK)

\* a worker thread calls get_lock
CallGetLock(t) ==
    /\ pc[t] \in {"idle", "failed"}
    /\ pc' = [pc EXCEPT ![t] = "gl_load"]
    /\ UNCHANGED <<bucketVars, version_lock, old_value, ret, iter, nthr,
                   start, callerVars, obs, storeVars>>

\* get_lock: let old_value = self.version_lock.load(Acquire) & LOCK_MASK
GetLockLoad(t) ==
    /\ pc[t] = "gl_load"
    /\ old_value' = [old_value EXCEPT ![t] = version_lock \cap LOCK_MASK]
    /\ pc' = [pc EXCEPT ![t] = "gl_cas"]
    /\ UNCHANGED <<bucketVars, version_lock, ret, iter, nthr, start,
                   callerVars, obs, storeVars>>

\* get_lock: compare_exchange(old_value, old_value | LOCK_SET); break on
\* success, loop otherwise
GetLockCas(t) ==
    /\ pc[t] = "gl_cas"
    /\ IF CompareExchangeOk(version_lock, old_value[t])
       THEN /\ version_lock' = old_value[t] \cup LOCK_SET
            /\ pc' = [pc EXCEPT ![t] = "held"]
       ELSE /\ version_lock' = version_lock
            /\ pc' = [pc EXCEPT ![t] = "gl_load"]
    /\ old_value' = [old_value EXCEPT ![t] = {}]
    /\ UNCHANGED <<bucketVars, ret, iter, nthr, start, callerVars, obs, storeVars>>

\* a worker thread calls try_get_lock
CallTryGetLock(t) ==
    /\ pc[t] \in {"idle", "failed"}
    /\ pc' = [pc EXCEPT ![t] = "tl_load"]
    /\ UNCHANGED <<bucketVars, version_lock, old_value, ret, iter, nthr,
                   start, callerVars, obs, storeVars>>

\* try_get_lock: let old_value = self.version_lock.load(Acquire) & LOCK_MASK
TryGetLockLoad(t) ==
    /\ pc[t] = "tl_load"
    /\ old_value' = [old_value EXCEPT ![t] = version_lock \cap LOCK_MASK]
    /\ pc' = [pc EXCEPT ![t] = "tl_cas"]
    /\ UNCHANGED <<bucketVars, version_lock, ret, iter, nthr, start,
                   callerVars, obs, storeVars>>

\* try_get_lock: compare_exchange(old_value, old_value | LOCK_SET).is_ok()
TryGetLockCas(t) ==
    /\ pc[t] = "tl_cas"
    /\ IF CompareExchangeOk(version_lock, old_value[t])
       THEN /\ version_lock' = old_value[t] \cup LOCK_SET
            /\ ret' = [ret EXCEPT ![t] = TRUE]
            /\ pc' = [pc EXCEPT ![t] = "held"]
       ELSE /\ version_lock' = version_lock
            /\ ret' = [ret EXCEPT ![t] = FALSE]
            /\ pc' = [pc EXCEPT ![t] = "failed"]
    /\ old_value' = [old_value EXCEPT ![t] = {}]
    /\ UNCHANGED <<bucketVars, iter, nthr, start, callerVars, obs, storeVars>>

\* the lock holder calls release_lock:
\* let old_value = self.version_lock.load(Acquire)
ReleaseLockLoad(t) ==
    /\ pc[t] = "held"
    /\ old_value' = [old_value EXCEPT ![t] = version_lock]
    /\ pc' = [pc EXCEPT ![t] = "rl_store"]
    /\ UNCHANGED <<bucketVars, version_lock, ret, iter, nthr, start,
                   callerVars, obs, storeVars>>

\* release_lock returns to the worker loop
ReleaseReturn(t) ==
    /\ iter' = [iter EXCEPT ![t] = @ + 1]
    /\ pc' = [pc EXCEPT ![t] = IF iter[t] + 1 >= MaxIter THEN "done" ELSE "idle"]
    /\ old_value' = [old_value EXCEPT ![t] = {}]

\* release_lock: self.version_lock.store(old_value + 1 - LOCK_SET, Release).
\* When the arithmetic leaves u32, a build with overflow checks panics
\* before the store and a build without them stores the wrapped value.
ReleaseLockStore(t) ==
    /\ pc[t] = "rl_store"
    /\ \/ /\ version_lock' = ReleaseValue(old_value[t])
          /\ ReleaseReturn(t)
       \/ /\ ReleaseOverflows(old_value[t])
          /\ version_lock' = version_lock
          /\ pc' = [pc EXCEPT ![t] = "panicked"]
          /\ UNCHANGED <<old_value, iter>>
    /\ UNCHANGED <<bucketVars, ret, nthr, start, callerVars, obs, storeVars>>

\* the worker loop of the contended-lock scenario: MaxIter cycles of
\* acquire (blocking, or a non-blocking attempt retried by the caller)
\* followed by release
InitLock ==
    /\ NewBucketFields
    /\ version_lock \in StartVersions
    /\ start = version_lock
    /\ nthr \in 1..NumThreads
    /\ pc = [t \in Active |-> "idle"]
    /\ old_value = [t \in Active |-> {}]
    /\ ret = [t \in Active |-> FALSE]
    /\ iter = [t \in Active |-> 0]
    /\ result = NoCall
    /\ calls = 0
    /\ NoObserver
    /\ NoStore

NextLock ==
    \E t \in Active :
        \/ CallGetLock(t)
        \/ GetLockLoad(t)
        \/ GetLockCas(t)
        \/ CallTryGetLock(t)
        \/ TryGetLockLoad(t)
        \/ TryGetLockCas(t)
        \/ ReleaseLockLoad(t)
        \/ ReleaseLockStore(t)

SpecLock == InitLock /\ [][NextLock]_vars

\* the race of try_get_lock calls: every thread has called try_get_lock
\* once on an unlocked bucket, and nobody releases
InitTry ==
    /\ NewBucketFields
    /\ version_lock \in StartVersions
    /\ start = version_lock
    /\ nthr \in 2..NumTryThreads
    /\ pc = [t \in Active |-> "tl_load"]
    /\ old_value = [t \in Active |-> {}]
    /\ ret = [t \in Active |-> FALSE]
    /\ iter = [t \in Active |-> 0]
    /\ result = NoCall
    /\ calls = 0
    /\ NoObserver
    /\ NoStore

NextTry ==
    \E t \in Active :
        \/ TryGetLockLoad(t)
        \/ TryGetLockCas(t)

SpecTry == InitTry /\ [][NextTry]_vars

\* the holder of the lock exits its critical section abnormally: it never
\* calls release_lock
Abandon(t) ==
    /\ pc[t] = "held"
    /\ pc' = [pc EXCEPT ![t] = "abandoned"]
    /\ UNCHANGED <<bucketVars, version_lock, old_value, ret, iter, nthr,
                   start, callerVars, obs, storeVars>>

\* the worker loop with holders that may fail inside the critical section
NextAbandon ==
    \E t \in Active :
        \/ CallGetLock(t)
        \/ GetLockLoad(t)
        \/ GetLockCas(t)
        \/ CallTryGetLock(t)
        \/ TryGetLockLoad(t)
        \/ TryGetLockCas(t)
        \/ ReleaseLockLoad(t)
        \/ ReleaseLockStore(t)
        \/ Abandon(t)

SpecAbandon == InitLock /\ [][NextAbandon]_vars

\* one step of a thread that does MaxIter cycles of get_lock then
\* release_lock
SpinStep(t) ==
    /\ t \in Active
    /\ \/ CallGetLock(t)
       \/ GetLockLoad(t)
       \/ GetLockCas(t)
       \/ ReleaseLockLoad(t)
       \/ ReleaseLockStore(t)

NextSpin == \E t \in 1..NumThreads : SpinStep(t)

\* every thread keeps being scheduled: a thread that can take a step
\* eventually takes one
SpecSpinFair ==
    /\ InitLock
    /\ [][NextSpin]_vars
    /\ \A t \in 1..NumThreads : WF_vars(SpinStep(t))

\* release_lock calls completed so far
RECURSIVE SumIter(_)
SumIter(n) == IF n = 0 THEN 0 ELSE iter[n] + SumIter(n - 1)

\* what a reader of the lock word gets, with the releases completed and the
\* threads inside their critical sections at the moment of the read
ReadWord ==
    [word |-> version_lock,
     released |-> SumIter(nthr),
     holders |-> {t \in Active : pc[t] \in {"held", "rl_store", "panicked"}}]

\* an optimistic reader loads the lock word before reading the bucket
ObserveFirst ==
    /\ obs.pc = "first"
    /\ obs' = [pc |-> "second", first |-> ReadWord]
    /\ UNCHANGED <<bucketVars, version_lock, threadVars, callerVars, storeVars>>

\* the reader loads the lock word again to validate what it read
ObserveSecond ==
    /\ obs.pc = "second"
    /\ obs' = [pc |-> "done", first |-> obs.first, second |-> ReadWord]
    /\ UNCHANGED <<bucketVars, version_lock, threadVars, callerVars, storeVars>>

\* threads doing get_lock/release_lock cycles beside a reader that loads the
\* lock word twice
InitObserve ==
    /\ NewBucketFields
    /\ version_lock \in StartVersions
    /\ start = version_lock
    /\ nthr \in 1..NumThreads
    /\ pc = [t \in Active |-> "idle"]
    /\ old_value = [t \in Active |-> {}]
    /\ ret = [t \in Active |-> FALSE]
    /\ iter = [t \in Active |-> 0]
    /\ result = NoCall
    /\ calls = 0
    /\ obs = [pc |-> "first"]
    /\ NoStore

NextObserve ==
    \/ \E t \in Active : SpinStep(t)
    \/ ObserveFirst
    \/ ObserveSecond

SpecObserve == InitObserve /\ [][NextObserve]_vars

(* ------------------------------ bitmap codec ---------------------------- *)

\* the u32 of a number below 16
FromNat4(n) == {i \in 0..3 : (n \div Pow2(i)) % 2 = 1}

\* fn get_count_from_bitmap(map: u32) -> usize
get_count_from_bitmap(map) == ToNat(map \cap COUNT_MASK)

\* pub fn get_bitmap(var: u32) -> u32
get_bitmap(var) == Shr(var, 18)

(* -------------------------------- insert -------------------------------- *)

\* a find_empty_slot that takes the count for the next free index
find_empty_slot_by_count(bm) ==
    IF get_count_from_bitmap(bm) = K_NUM_PAIR_PER_BUCKET
    THEN None
    ELSE Some(get_count_from_bitmap(bm))

\* a find_empty_slot that does not look at the count
find_empty_slot_unchecked(bm) == Some(TrailingZeros(BitNot(get_bitmap(bm))))

\* a find_empty_slot that reports full one pair early
find_empty_slot_early(bm) ==
    IF get_count_from_bitmap(bm) >= K_NUM_PAIR_PER_BUCKET - 1
    THEN None
    ELSE Some(TrailingZeros(BitNot(get_bitmap(bm))))

\* Bucket::find_empty_slot, on the bitmap word
find_empty_slot(bm) ==
    IF get_count_from_bitmap(bm) = K_NUM_PAIR_PER_BUCKET
    THEN None
    ELSE Some(TrailingZeros(BitNot(get_bitmap(bm))))

\* a set_hash that forgets to count
set_hash_no_count(bm, slot, probe) ==
    (bm \cup Shl1(slot + 18)) \cup (IF probe THEN Shl1(slot + 4) ELSE {})

\* a set_hash that puts the allocation bits where the layout comment of the
\* source draws them first, 14 bits above the count
set_hash_low_alloc(bm, slot, probe) ==
    WrappingAddOne((bm \cup Shl1(slot + 4))
                   \cup (IF probe THEN Shl1(slot + 18) ELSE {}))

\* a set_hash that forgets the allocation bit
set_hash_no_alloc(bm, slot, probe) ==
    WrappingAddOne(bm \cup (IF probe THEN Shl1(slot + 4) ELSE {}))

\* a set_hash that marks every pair as hosted
set_hash_always_probe(bm, slot, probe) ==
    WrappingAddOne((bm \cup Shl1(slot + 18)) \cup Shl1(slot + 4))

\* Bucket::set_hash, the bitmap word it leaves:
\*   new_bitmap = bitmap | (1 << (slot + 18));
\*   if probe { new_bitmap |= 1 << (slot + 4) }
\*   new_bitmap += 1
set_hash_bitmap(bm, slot, probe) ==
    WrappingAddOne((bm \cup Shl1(slot + 18))
                   \cup (IF probe THEN Shl1(slot + 4) ELSE {}))

\* a set_hash that indexes the fingerprints by the probe bit of the slot
set_hash_fingerprints_shifted(fps, slot, hash) == [fps EXCEPT ![slot + 4] = hash]

\* Bucket::set_hash, the fingerprints it leaves: fingerprints[slot] = hash
set_hash_fingerprints(fps, slot, hash) == [fps EXCEPT ![slot] = hash]

\* the record of a call insert(key, value, meta_hash, probe)
Returned(kind, slot, key, value, meta_hash, probe) ==
    [kind |-> kind, slot |-> slot, key |-> key, value |-> value,
     meta_hash |-> meta_hash, probe |-> probe]

\* Bucket::insert(key, value, meta_hash, probe).  Indexing pairs[slot] with
\* slot >= 14 panics before anything is written.
insert(key, value, meta_hash, probe) ==
    LET found == find_empty_slot(bitmap)
    IN  /\ IF found = None
           THEN /\ result' = Returned("BucketFull", 0, key, value, meta_hash, probe)
                /\ UNCHANGED <<pairs, fingerprints, bitmap>>
           ELSE IF found.val \notin Slots
           THEN /\ result' = Returned("panic", found.val, key, value, meta_hash, probe)
                /\ UNCHANGED <<pairs, fingerprints, bitmap>>
           ELSE /\ pairs' = [pairs EXCEPT ![found.val] = Some(Pair(key, value))]
                /\ fingerprints' =
                       set_hash_fingerprints(fingerprints, found.val, meta_hash)
                /\ bitmap' = set_hash_bitmap(bitmap, found.val, probe)
                /\ result' = Returned("Ok", found.val, key, value, meta_hash, probe)
        /\ calls' = calls + 1
        /\ UNCHANGED <<overflow_count, overflow_member, overflow_index,
                       overflow_bitmap, version_lock, threadVars, obs, storeVars>>

\* the (key, value, meta_hash, probe) a caller of insert passes
Inputs == {<<"a", <<1>>, 167, FALSE>>, <<"b", <<2, 3>>, 92, TRUE>>}

SlotInputs == Inputs \cup {<<"a", <<1>>, 167, TRUE>>, <<"b", <<2, 3>>, 92, FALSE>>}

NoThreads ==
    /\ nthr = 0
    /\ pc = <<>>
    /\ old_value = <<>>
    /\ ret = <<>>
    /\ iter = <<>>

\* Bucket::new, then insert calls by the one owner of the bucket (insert
\* takes &mut self, so no other call runs during it)
Init ==
    /\ NewBucketFields
    /\ version_lock = {}
    /\ start = version_lock
    /\ NoThreads
    /\ result = NoCall
    /\ calls = 0
    /\ NoObserver
    /\ NoStore

Next ==
    \E in \in Inputs :
        /\ calls < MaxCalls
        /\ insert(in[1], in[2], in[3], in[4])

Spec == Init /\ [][Next]_vars

\* the bitmap word of a bucket whose slots occ are occupied, those of hosted
\* with the probe flag set
BitmapOf(occ, hosted) ==
    {18 + s : s \in occ} \cup {4 + s : s \in hosted} \cup FromNat4(Cardinality(occ))

\* find_empty_slot and insert as functions of the bucket: the bucket starts
\* from any occupancy whose count and allocation bits agree
InitSlot ==
    /\ \E occ \in SUBSET Slots :
        LET hosted == {s \in occ : s % 2 = 1}
        IN  /\ pairs = [s \in Slots |->
                           IF s \in occ THEN Some(Pair("z", <<>>)) ELSE None]
            /\ fingerprints = [i \in 0..17 |-> IF i \in occ THEN 255 ELSE 0]
            /\ bitmap = BitmapOf(occ, hosted)
    /\ overflow_count = 0
    /\ overflow_member = 0
    /\ overflow_index = 0
    /\ overflow_bitmap = 0
    /\ version_lock = {}
    /\ start = version_lock
    /\ NoThreads
    /\ result = NoCall
    /\ calls = 0
    /\ NoObserver
    /\ NoStore

NextSlot ==
    \E in \in SlotInputs :
        /\ calls < MaxSlotCalls
        /\ insert(in[1], in[2], in[3], in[4])

SpecSlot == InitSlot /\ [][NextSlot]_vars

(* ---------------------------- reactive store --------------------------- *)

\* broadcast::channel(100)
CHANNEL_CAPACITY == 100

\* usize::next_power_of_two
RECURSIVE PowerOfTwoFrom(_, _)
PowerOfTwoFrom(p, n) == IF p >= n THEN p ELSE PowerOfTwoFrom(2 * p, n)

\* the messages a broadcast channel made for capacity messages retains: the
\* capacity asked for, or the next power of two the buffer is rounded up to
Capacities == {CHANNEL_CAPACITY, PowerOfTwoFrom(1, CHANNEL_CAPACITY)}

\* the String keys "key0", "key1", ... (format!("key{}", i))
Key(i) == <<"key", i>>

\* StoreValue::Text
Text(s) == [tag |-> "Text", s |-> s]

\* StoreValue::Counter
Counter(n) == [tag |-> "Counter", n |-> n]

\* StoreValue::Text("EXPIRED".into())
EXPIRED == Text(<<"EXPIRED">>)

\* a HashMap::insert that keeps the value of a key it already holds
HashMapInsertIfAbsent(d, key, value) ==
    IF \E p \in d : p[1] = key THEN d ELSE d \cup {<<key, value>>}

\* HashMap::insert
HashMapInsert(d, key, value) == {p \in d : p[1] # key} \cup {<<key, value>>}

\* HashMap::remove
HashMapRemove(d, key) == {p \in d : p[1] # key}

\* HashMap::get(key).cloned()
HashMapGet(d, key) ==
    IF \E p \in d : p[1] = key
    THEN Some((CHOOSE p \in d : p[1] = key)[2])
    ELSE None

\* ReactiveStore::get
get(key) == HashMapGet(data, key)

\* broadcast::Sender::send, whose error set ignores: with no receiver the
\* message is dropped
Send(log, receivers, msg) ==
    IF receivers = <<>> THEN log ELSE Append(log, msg)

\* a Receiver made when the channel has taken n messages
NewReceiver(n) == [next |-> n, got |-> <<>>, lagged |-> 0]

\* ReactiveStore::new: the map and the channel; the receiver that
\* broadcast::channel returns is dropped
NewStore ==
    /\ data = {}
    /\ tx = <<>>
    /\ cap \in Capacities

\* the caller's record of a completed call
Called(op, key, value) == [op |-> op, key |-> key, value |-> value]

\* what the store actions leave alone
NoBucketStep ==
    UNCHANGED <<bucketVars, version_lock, threadVars, callerVars, obs, cap, plan>>

\* ReactiveStore::set(key, value), called by the one caller of the store
Set(key, value) ==
    /\ data' = HashMapInsert(data, key, value)
    /\ tx' = Send(tx, rx, <<key, value>>)
    /\ hist' = Append(hist, Called("set", key, value))
    /\ UNCHANGED <<rx, setters>>
    /\ NoBucketStep

\* ReactiveStore::remove(key)
Remove(key) ==
    /\ data' = HashMapRemove(data, key)
    /\ hist' = Append(hist, Called("remove", key, None))
    /\ UNCHANGED <<tx, rx, setters>>
    /\ NoBucketStep

\* ReactiveStore::set_with_ttl(key, value, ttl): self.set(key, value), then
\* clones of data, tx and key that are dropped; ttl is not used
SetWithTtl(key, value) ==
    /\ data' = HashMapInsert(data, key, value)
    /\ tx' = Send(tx, rx, <<key, value>>)
    /\ hist' = Append(hist, Called("set_with_ttl", key, value))
    /\ UNCHANGED <<rx, setters>>
    /\ NoBucketStep

\* ReactiveStore::subscribe
Subscribe ==
    /\ rx' = Append(rx, NewReceiver(Len(tx)))
    /\ UNCHANGED <<data, tx, setters, hist>>
    /\ NoBucketStep

\* broadcast::Receiver::recv().await: waits while there is no message; a
\* receiver more than cap messages behind gets Err(Lagged(n)) and skips to
\* the oldest retained message
Recv(r) ==
    /\ rx[r].next < Len(tx)
    /\ IF Len(tx) - rx[r].next > cap
       THEN rx' = [rx EXCEPT ![r] =
                      [next |-> Len(tx) - cap,
                       got |-> @.got,
                       lagged |-> @.lagged + ((Len(tx) - cap) - @.next)]]
       ELSE rx' = [rx EXCEPT ![r] =
                      [next |-> @.next + 1,
                       got |-> Append(@.got, tx[@.next + 1]),
                       lagged |-> @.lagged]]
    /\ UNCHANGED <<data, tx, setters, hist>>
    /\ NoBucketStep

\* ReactiveStore::set in a thread: the insert under the write lock
SetInsert(t) ==
    /\ setters[t].pc = "insert"
    /\ data' = HashMapInsert(data, setters[t].key, setters[t].value)
    /\ setters' = [setters EXCEPT ![t].pc = "send"]
    /\ UNCHANGED <<tx, rx, hist>>
    /\ NoBucketStep

\* ReactiveStore::set in a thread: the send, after the lock is dropped
SetSend(t) ==
    /\ setters[t].pc = "send"
    /\ tx' = Send(tx, rx, <<setters[t].key, setters[t].value>>)
    /\ setters' = [setters EXCEPT ![t].pc = "done"]
    /\ UNCHANGED <<data, rx, hist>>
    /\ NoBucketStep

\* no bucket is involved
NoBucket ==
    /\ NewBucketFields
    /\ version_lock = {}
    /\ start = version_lock
    /\ NoThreads
    /\ result = NoCall
    /\ calls = 0
    /\ NoObserver

StoreKeys == {Key(1), Key(2)}

StoreValues == {Text(<<"value", 1>>), Counter(42)}

\* one caller makes up to MaxStoreOps set and remove calls, receivers
\* subscribe and read at any time
InitStore ==
    /\ NoBucket
    /\ NewStore
    /\ rx = <<>>
    /\ setters = <<>>
    /\ hist = <<>>
    /\ plan = MaxStoreOps

NextStore ==
    \/ \E k \in StoreKeys, v \in StoreValues : Len(hist) < plan /\ Set(k, v)
    \/ \E k \in StoreKeys : Len(hist) < plan /\ Remove(k)
    \/ Len(rx) < MaxSubscribers /\ Subscribe
    \/ \E r \in DOMAIN rx : Recv(r)

SpecStore == InitStore /\ [][NextStore]_vars

\* main and test_reactive_store_ttl: new and subscribe, then plan calls
\* set_with_ttl(format!("key{}", i), Text(format!("value{}", i)), ttl) for
\* i = 0, 1, ..., and sub.recv().await.unwrap() on the subscription, which
\* panics on Err(Lagged)
InitMain ==
    /\ NoBucket
    /\ NewStore
    /\ rx = <<NewReceiver(0)>>
    /\ setters = <<>>
    /\ hist = <<>>
    /\ plan \in {1, MaxMainSets}

NextMain ==
    \/ /\ Len(hist) < plan
       /\ SetWithTtl(Key(Len(hist)), Text(<<"value", Len(hist)>>))
    \/ /\ rx[1].lagged = 0
       /\ Recv(1)

SpecMain == InitMain /\ [][NextMain]_vars

\* after new and subscribe, threads call set on one key at the same time,
\* each with its own value, while the subscriber reads
InitRace ==
    /\ NoBucket
    /\ NewStore
    /\ rx = <<NewReceiver(0)>>
    /\ \E n \in 2..NumSetters :
          setters = [t \in 1..n |->
                        [pc |-> "insert", key |-> Key(1), value |-> Counter(t)]]
    /\ hist = <<>>
    /\ plan = 0

NextRace ==
    \/ \E t \in DOMAIN setters : SetInsert(t) \/ SetSend(t)
    \/ Recv(1)

SpecRace == InitRace /\ [][NextRace]_vars

(* ------------------------- claims about the lock ------------------------ *)

\* threads between a successful acquire and the end of the matching release
\* (a thread that panicked inside release_lock never finished releasing)
Holders == {t \in Active : pc[t] \in {"held", "rl_store", "panicked"}}

\* C1 (SpecLock): mutual exclusion. At most one thread is between a
\* successful acquire and its matching release, the lock flag is set for as
\* long as a thread is, and a thread gets there only by a step in which the
\* flag was clear and its own compare-and-swap set it.
MutualExclusion ==
    /\ [](Cardinality(Holders) <= 1 /\ (Holders # {} => is_locked))
    /\ [][\A t \in Active :
            (pc[t] # "held" /\ pc'[t] = "held") =>
                /\ pc[t] \in {"gl_cas", "tl_cas"}
                /\ ~is_locked
                /\ version_lock = old_value[t]
                /\ version_lock' = old_value[t] \cup LOCK_SET]_vars

\* C1 witness: one thread holds the lock while another, which read the word
\* before, is about to try its compare-and-swap
MutualExclusionWitness ==
    \E t, u \in Active :
        /\ t # u
        /\ pc[t] = "held"
        /\ pc[u] = "gl_cas"
        /\ old_value[u] \cup LOCK_SET = version_lock

\* C2 (SpecTry): of the threads racing on try_get_lock on an unlocked
\* bucket exactly one returns true and the others false, and from the
\* winner's compare-and-swap on the word stays as the winner left it.
TryExactlyOne ==
    LET winners == {t \in Active : pc[t] = "held"}
        losers  == {t \in Active : pc[t] = "failed"}
    IN  /\ Cardinality(winners) <= 1
        /\ \A t \in winners : ret[t] = TRUE
        /\ \A t \in losers : ret[t] = FALSE
        /\ losers # {} => winners # {}
        /\ winners # {} => version_lock = start \cup LOCK_SET
        /\ winners \cup losers = Active => Cardinality(winners) = 1

\* C2 witness: two threads raced, one call returned true and the other
\* returned false
TryExactlyOneWitness ==
    /\ nthr = 2
    /\ \E t, u \in Active :
        /\ pc[t] = "held" /\ ret[t] = TRUE
        /\ pc[u] = "failed" /\ ret[u] = FALSE
    /\ version_lock = start \cup LOCK_SET

\* C3 (SpecLock): starting from version 0, once every thread has finished
\* its MaxIter cycles of acquire then release, the version counter is
\* nthr * MaxIter and the lock flag is clear.
ContendedCount ==
    (start = {} /\ \A t \in Active : pc[t] = "done") =>
        /\ Version = nthr * MaxIter
        /\ ~is_locked

\* C3 witness: NumThreads threads started at version 0 and have all finished
ContendedCountWitness ==
    /\ start = {}
    /\ nthr = NumThreads
    /\ \A t \in Active : pc[t] = "done" /\ iter[t] = MaxIter

\* (v + n) mod 2^31 for v in 0..2^31-1 and a small n
AddMod31(v, n) ==
    IF v <= 2147483647 - n THEN v + n ELSE (n - 1) - (2147483647 - v)

\* C4 (SpecLock): with a single thread, after each release_lock the lock
\* flag is clear and the version is (v + N) mod 2^31, where v is the
\* starting version and N the number of cycles completed, and the
\* computation old_value + 1 - LOCK_SET never leaves the range of u32.
VersionMonotonic ==
    nthr = 1 =>
        /\ pc[1] # "panicked"
        /\ pc[1] = "rl_store" => ~ReleaseOverflows(old_value[1])
        /\ pc[1] \in {"idle", "done"} =>
              /\ ~is_locked
              /\ Version = AddMod31(ToNat(start), iter[1])

\* C12 (SpecAbandon): an abandoned lock is permanent. Once a thread has
\* left its critical section without release_lock, is_locked() stays true,
\* the lock word never changes, every try_get_lock returns false and no
\* thread's get_lock or try_get_lock acquires.
AbandonedLockPermanent ==
    [][(\E t \in Active : pc[t] = "abandoned") =>
        /\ is_locked
        /\ is_locked'
        /\ version_lock' = version_lock
        /\ \A u \in Active :
              /\ pc[u] # "held"
              /\ pc'[u] # "held"
              /\ (pc[u] = "tl_cas" /\ pc'[u] # "tl_cas") =>
                    (pc'[u] = "failed" /\ ret'[u] = FALSE)]_vars

\* C12 witness: a thread has abandoned the lock, another thread's
\* try_get_lock has returned false and it is spinning in get_lock
AbandonedLockWitness ==
    \E t, u \in Active :
        /\ pc[t] = "abandoned"
        /\ pc[u] = "gl_cas"
        /\ ret[u] = FALSE
        /\ iter[u] = 0
        /\ iter[t] = 1
        /\ old_value[u] \cup LOCK_SET = version_lock

\* C19 (SpecSpinFair): lock progress. With every thread scheduled fairly,
\* every thread eventually completes its MaxIter cycles, and whenever the
\* lock is free while some thread is in get_lock, some thread eventually
\* holds it.
LockProgress ==
    /\ <>(\A t \in Active : pc[t] = "done")
    /\ (~is_locked /\ \E t \in Active : pc[t] \in {"gl_load", "gl_cas"})
          ~> (\E t \in Active : pc[t] = "held")

\* C18 (SpecObserve): optimistic-read validation is sound. If the two loads
\* of a reader return the same word with the lock flag clear, then no thread
\* was in its critical section at either load and no release_lock completed
\* between them: nobody held the lock at any moment between the loads.
OptimisticReadSound ==
    (/\ obs.pc = "done"
     /\ obs.first.word = obs.second.word
     /\ ~(LOCK_SET \subseteq obs.first.word)) =>
        /\ obs.first.holders = {}
        /\ obs.second.holders = {}
        /\ obs.second.released = obs.first.released

\* C18 witness: the reader validated successfully after a cycle of another
\* thread and before the next
OptimisticReadWitness ==
    /\ obs.pc = "done"
    /\ obs.first.word = obs.second.word
    /\ ~(LOCK_SET \subseteq obs.first.word)
    /\ obs.first.released = 1
    /\ \E t \in Active : pc[t] = "done"

(* ------------------------ claims about the bucket ----------------------- *)

\* the slots that hold a pair
Occupied == {s \in Slots : pairs[s] # None}

\* the slots whose allocation bit 18+s is set in the word bm
Allocated(bm) == {s \in Slots : (18 + s) \in bm}

\* C5 (Spec): capacity invariant. The count field (bitmap & 0xF) equals the
\* number of Some entries of pairs and the population count of bitmap >> 18,
\* and is at most 14; and bit 4 of the bitmap changes only when slot 0 is
\* inserted with the probe flag, never by a carry out of the count.
CapacityInvariant ==
    /\ [](/\ get_count_from_bitmap(bitmap) = Cardinality(Occupied)
          /\ get_count_from_bitmap(bitmap) = CountOnes(get_bitmap(bitmap))
          /\ get_count_from_bitmap(bitmap) <= K_NUM_PAIR_PER_BUCKET)
    /\ [][calls' # calls =>
            ((4 \in bitmap') <=>
                \/ 4 \in bitmap
                \/ /\ result'.kind = "Ok"
                   /\ result'.slot = 0
                   /\ result'.probe)]_vars

\* C5 witness: the bucket is full after inserts of both probe flags and a
\* failed insert
CapacityWitness ==
    /\ get_count_from_bitmap(bitmap) = K_NUM_PAIR_PER_BUCKET
    /\ Cardinality(Occupied) = K_NUM_PAIR_PER_BUCKET
    /\ result.kind = "BucketFull"
    /\ 4 \notin bitmap
    /\ 5 \in bitmap

\* C6 (Spec): slot/bitmap agreement. For every slot s in 0..13, pairs[s] is
\* Some iff bit 18+s of the bitmap is set.
SlotBitmapAgreement ==
    \A s \in Slots : (pairs[s] # None) <=> ((18 + s) \in bitmap)

\* C6 witness: a bucket with some slots occupied and some free
SlotBitmapWitness ==
    /\ pairs[6] # None
    /\ 24 \in bitmap
    /\ pairs[7] = None
    /\ 25 \notin bitmap

\* C7 (Spec): insert returns BucketFull iff the bucket holds 14 pairs when
\* it is called, and a call that returns BucketFull leaves pairs,
\* fingerprints, bitmap, the overflow fields and the lock word as they were.
BucketFullAtomic ==
    [][calls' # calls =>
        /\ (result'.kind = "BucketFull") <=>
               (Cardinality(Occupied) = K_NUM_PAIR_PER_BUCKET)
        /\ result'.kind = "BucketFull" =>
               UNCHANGED <<bucketVars, version_lock>>]_vars

\* C7 witness: a second insert in a row has failed on the full bucket
BucketFullWitness ==
    /\ calls = K_NUM_PAIR_PER_BUCKET + 2
    /\ result.kind = "BucketFull"
    /\ Cardinality(Occupied) = K_NUM_PAIR_PER_BUCKET

\* C8 (SpecSlot): lowest-free-slot policy. From every bucket whose count is
\* below 14 and agrees with its allocation bits, insert succeeds and returns
\* the smallest s in 0..13 whose allocation bit 18+s is clear.
LowestFreeSlot ==
    [][(calls' # calls /\ get_count_from_bitmap(bitmap) < K_NUM_PAIR_PER_BUCKET) =>
        /\ result'.kind = "Ok"
        /\ result'.slot \in Slots \ Allocated(bitmap)
        /\ \A s \in Slots : s < result'.slot => s \in Allocated(bitmap)]_vars

\* C8 witness: the bucket started with slots {0, 2} occupied and the one
\* insert made went to slot 1
LowestFreeSlotWitness ==
    /\ calls = 1
    /\ result.kind = "Ok"
    /\ result.slot = 1
    /\ Occupied = {0, 1, 2}

\* C9 (Spec): fill then overflow. From new(), the n-th insert (n = 1..14)
\* returns slot n-1, the occupied slots are always 0..count-1, and every
\* insert after the 14th returns BucketFull with the count reading 14.
FillThenOverflow ==
    /\ Occupied = 0..(get_count_from_bitmap(bitmap) - 1)
    /\ (calls >= 1 /\ calls <= K_NUM_PAIR_PER_BUCKET) =>
          /\ result.kind = "Ok"
          /\ result.slot = calls - 1
          /\ get_count_from_bitmap(bitmap) = calls
    /\ calls > K_NUM_PAIR_PER_BUCKET =>
          /\ result.kind = "BucketFull"
          /\ get_count_from_bitmap(bitmap) = K_NUM_PAIR_PER_BUCKET

\* C9 witness: the 15th insert has returned BucketFull
FillThenOverflowWitness ==
    /\ calls = K_NUM_PAIR_PER_BUCKET + 1
    /\ result.kind = "BucketFull"
    /\ get_count_from_bitmap(bitmap) = K_NUM_PAIR_PER_BUCKET

\* C10 (Spec): after insert(key, value, fp, probe) returns Ok(s), pairs[s]
\* is Pair(key, value), fingerprints[s] is fp, bit 18+s of the bitmap is set
\* and bit 4+s, the probe bit set_hash uses for slot s, is set iff probe.
FingerprintProbe ==
    result.kind = "Ok" =>
        /\ pairs[result.slot] = Some(Pair(result.key, result.value))
        /\ fingerprints[result.slot] = result.meta_hash
        /\ (18 + result.slot) \in bitmap
        /\ ((4 + result.slot) \in bitmap) <=> result.probe

\* C10 witness: an insert without the probe flag has succeeded after inserts
\* with it
FingerprintProbeWitness ==
    /\ result.kind = "Ok"
    /\ result.probe = FALSE
    /\ result.slot = 3
    /\ 7 \notin bitmap
    /\ 6 \in bitmap
    /\ fingerprints[3] = 167
    /\ fingerprints[2] = 92

\* C11 (Spec): bits 14..17 of the bitmap, reserved for the stash buckets,
\* are never set by an insert: the probe flags stay within bits 4..13.
StashBitsClear == bitmap \cap (14..17) = {}

\* C13 (Spec): every insert call, successful or not, leaves the lock word,
\* overflow_count, overflow_member, overflow_index, overflow_bitmap and
\* fingerprints[14..17] as they were.
InsertFrame ==
    [][calls' # calls =>
        /\ UNCHANGED <<version_lock, overflow_count, overflow_member,
                       overflow_index, overflow_bitmap>>
        /\ \A i \in 14..17 : fingerprints'[i] = fingerprints[i]]_vars

\* C13 witness: inserts have filled the last slots and a further one has
\* failed, with the lock word and the stash fields still as new() left them
InsertFrameWitness ==
    /\ result.kind = "BucketFull"
    /\ pairs[13] # None
    /\ fingerprints[13] # 0
    /\ \A i \in 14..17 : fingerprints[i] = 0
    /\ version_lock = {}
    /\ overflow_count = 0 /\ overflow_member = 0
    /\ overflow_index = 0 /\ overflow_bitmap = 0

\* C14 (Spec): a successful insert goes to a slot that was empty and leaves
\* the pair, the fingerprint, the allocation bit and the probe bit of every
\* other slot as they were, also when the key is already in the bucket.
InsertKeepsOthers ==
    [][(calls' # calls /\ result'.kind = "Ok") =>
        /\ pairs[result'.slot] = None
        /\ \A s \in Slots \ {result'.slot} :
              /\ pairs'[s] = pairs[s]
              /\ fingerprints'[s] = fingerprints[s]
              /\ ((18 + s) \in bitmap') <=> ((18 + s) \in bitmap)
              /\ ((4 + s) \in bitmap') <=> ((4 + s) \in bitmap)]_vars

\* C14 witness: the same key and value were inserted twice and sit in two
\* slots
InsertKeepsOthersWitness ==
    /\ calls = 2
    /\ result.kind = "Ok"
    /\ result.slot = 1
    /\ pairs[0] = Some(Pair("a", <<1>>))
    /\ pairs[1] = Some(Pair("a", <<1>>))

(* ------------------------ claims about the store ------------------------ *)

\* C15 (SpecMain): TTL expiry. Once the caller has made its set_with_ttl
\* calls and the subscriber has read every message sent, the subscriber has
\* received, for each call, (key, value) and after it (key, Text("EXPIRED")),
\* and get(key) returns None.
TtlExpires ==
    (Len(hist) = plan /\ rx[1].lagged = 0 /\ rx[1].next = Len(tx)) =>
        \A i \in 1..Len(hist) :
            /\ \E a, b \in 1..Len(rx[1].got) :
                  /\ a < b
                  /\ rx[1].got[a] = <<hist[i].key, hist[i].value>>
                  /\ rx[1].got[b] = <<hist[i].key, EXPIRED>>
            /\ get(hist[i].key) = None

\* C16 (SpecMain): change notification. The subscriber, subscribed before
\* the first call, never loses an event: what it has received are the
\* (key, value) of the caller's calls, in the order the calls were made, and
\* once it has read every message it has received one event per call.
EveryChangeDelivered ==
    \A r \in DOMAIN rx :
        /\ rx[r].lagged = 0
        /\ Len(rx[r].got) <= Len(hist)
        /\ \A j \in 1..Len(rx[r].got) :
              rx[r].got[j] = <<hist[j].key, hist[j].value>>
        /\ rx[r].next = Len(tx) => Len(rx[r].got) = Len(hist)

\* what get(key) is to return after the calls h: the value of the last set
\* of key that no remove of key follows
RECURSIVE LastWrite(_, _)
LastWrite(h, key) ==
    IF h = <<>> THEN None
    ELSE LET e == h[Len(h)]
         IN  IF e.key = key
             THEN IF e.op = "remove" THEN None ELSE Some(e.value)
             ELSE LastWrite(SubSeq(h, 1, Len(h) - 1), key)

\* C17 (SpecStore): map semantics. After any sequence of set and remove
\* calls get(k) returns the value of the most recent set(k, v) that no
\* remove(k) follows, None if there is none, and a call on one key leaves
\* what get returns for the other keys unchanged.
MapSemantics ==
    /\ [](\A k \in StoreKeys : get(k) = LastWrite(hist, k))
    /\ [][hist' # hist =>
            \A k \in StoreKeys \ {hist'[Len(hist')].key} :
                HashMapGet(data', k) = HashMapGet(data, k)]_vars

\* C17 witness: the calls of test_reactive_store, then a set that replaces
\* a value
MapSemanticsWitness ==
    /\ hist = <<Called("set", Key(1), Text(<<"value", 1>>)),
                Called("set", Key(2), Counter(42)),
                Called("remove", Key(1), None),
                Called("set", Key(2), Text(<<"value", 1>>))>>
    /\ get(Key(1)) = None
    /\ get(Key(2)) = Some(Text(<<"value", 1>>))

\* C20 (SpecRace): notifications agree with the stored state. Once every
\* concurrent set on the key has returned and the subscriber has read every
\* message, the last event it received carries the value get(key) returns.
EventsAgreeWithMap ==
    (/\ \A t \in DOMAIN setters : setters[t].pc = "done"
     /\ rx[1].next = Len(tx)) =>
        /\ rx[1].got # <<>>
        /\ Some(rx[1].got[Len(rx[1].got)][2]) = get(Key(1))

=============================================================================
